---- MODULE Spec2Model ----
(***************************************************************************)
(* arctee: run a command (with retries), compress its stdout, resolve the  *)
(* path template and write the result atomically.                          *)
(*                                                                         *)
(* One behaviour is one invocation, entered either through the CLI (main)  *)
(* or through a direct call of do_export.  The environment (the command,   *)
(* the compressor, the file system, the clock) is nondeterministic.        *)
(***************************************************************************)
EXTENDS Integers, Sequences, FiniteSets, TLC

(* ----------------------------- bounds ---------------------------------- *)

\* largest retry budget explored (budgets 0..MaxRetries, and "not given")
MaxRetries == 3
\* the clock runs from 0 to MaxClock ticks
MaxClock == 2
\* longest stdout of the command, in bytes
MaxLen == 2

\* clock ticks per second: utcnow() has a resolution of one second
TicksPerSecond == 2

\* executions explored for a budget that never gives up
MaxAttempts == MaxRetries

(* --------------------------- optional values --------------------------- *)

\* Python's None and a present value, as sequences of length 0 and 1
None == <<>>
Some(x) == <<x>>

(* ------------------------------ inputs --------------------------------- *)

Lit(s) == [kind |-> "lit", text |-> s]
Field(s) == [kind |-> "field", text |-> s]

\* path templates: a timestamped one, a time-independent one, one with a typo
Templates ==
  { <<Lit("/exports/"), Field("utcnow"), Lit(".json")>>,
    <<Lit("/exports/test_"), Field("hostname"), Field("platform")>>,
    <<Lit("/exports/"), Field("utcnow"), Field("utcnwo")>> }

Byte == 48
\* a byte that occurs in no UTF-8 text
BadByte == 255
Outputs == { [i \in 1..n |-> Byte] : n \in 0..MaxLen } \cup { <<BadByte>> }
Stderrs == { <<>>, <<101>>, <<BadByte>> }
ReturnCodes == {0, 1, 2}
Formats == {"zstd", "xz"}

\* a command line as a string: its words with single spaces between them
Join(words) ==
  [i \in 1..(2 * Len(words) - 1) |-> IF i % 2 = 1 THEN words[(i + 1) \div 2] ELSE " "]

\* str.split(): the words between runs of whitespace
Split(str) == SelectSeq(str, LAMBDA w : w \notin {" ", ""})

CustomCmd == Join(<<"zstd", "-9", "--quiet", "-o", "/dev/stdout">>)
OldContent == <<111, 108, 100>>

(* ------------------------- path resolver ------------------------------- *)

PLACEHOLDERS == {"utcnow", "hostname", "platform"}

\* strftime('%Y%m%dT%H%M%SZ'): the clock truncated to whole seconds
utcnow(t) == ToString(t \div TicksPerSecond)
hostname == "host"
platform == "linux"

Provider(name, t) ==
  CASE name = "utcnow" -> utcnow(t)
    [] name = "hostname" -> hostname
    [] name = "platform" -> platform

\* s.format(**pdict) raises KeyError for a field that is no placeholder
FormatRaises(s) ==
  \E i \in 1..Len(s) : s[i].kind = "field" /\ s[i].text \notin PLACEHOLDERS

replace_placeholders(s, t) ==
  [i \in 1..Len(s) |->
     IF s[i].kind = "lit" THEN s[i].text ELSE Provider(s[i].text, t)]

\* the paths a template can resolve to while the clock runs
PossiblePaths(s) ==
  IF FormatRaises(s) THEN {} ELSE { replace_placeholders(s, t) : t \in 0..MaxClock }

(* --------------------------- compressor -------------------------------- *)

\* a lookup without the special case
get_compression_cmd_generic(compression) ==
  Join(<<"apack", "-F", compression, "-f", "/dev/stdout">>)

get_compression_cmd(compression) ==
  IF compression = "zstd"
  THEN Join(<<"zstd", "--quiet", "-o", "/dev/stdout">>)
  ELSE Join(<<"apack", "-F", compression, "-f", "/dev/stdout">>)

\* a selection that drops the format
SelectIgnoresFormat(c, compression) == c

\* a selection that falls back to a default format when nothing is given
SelectDefaultsToGzip(c, compression) ==
  IF c = None
  THEN Some(get_compression_cmd(IF compression = None THEN "gz" ELSE compression[1]))
  ELSE c

\* do_export: an explicit command wins, else the format selects one, else none
SelectCompressionCmd(ccmd, compression) ==
  IF ccmd = None
  THEN IF compression = None THEN None ELSE Some(get_compression_cmd(compression[1]))
  ELSE ccmd

\* what the external program writes to its stdout: a header naming the
\* program, then the payload (never the input itself)
CompressorOutput(argv, data) ==
  <<IF argv[1] = "zstd" THEN 40 ELSE 253>> \o <<Len(argv)>> \o data

(* ---------------------------- file system ------------------------------ *)

EmptyFS == [p \in {} |-> <<>>]
Put(fsys, p, data) ==
  [q \in DOMAIN fsys \cup {p} |-> IF q = p THEN data ELSE fsys[q]]

VARIABLES
  script,           \* the program: "arctee", or "bwnew" (its older form)
  run,              \* 1, or 2 in the second of two successive runs
  entry,            \* "main" (the CLI) or "do_export" (a direct call)
  path,             \* the path template
  retries,          \* None or Some(n)
  compression,      \* None or Some(format)
  compression_cmd,  \* None or Some(string): the explicit compression command
  ccmd,             \* do_export's compression_cmd after the selection
  dirExists,        \* whether the destination directory exists
  now,              \* the clock, in ticks
  fs,               \* the files of the destination directory: path -> bytes
  tmp,              \* the temporary file of the atomic write: None or Some(bytes)
  pc,               \* the stage of the pipeline
  stdout,           \* do_export's buffer
  resolved,         \* the resolved path: None or Some(path)
  rcs,              \* history: the exit codes of the last MaxAttempts executions
  lastOut,          \* history: stdout of the last execution
  lastErr,          \* history: stderr of the last execution
  compressorCalls,  \* history: invocations of the external compressor
  crc,              \* history: None or Some(exit code of the compressor)
  cargv,            \* history: None or Some(argv the compressor was run with)
  checked,          \* history: None or Some(the path main's early check computed)
  fs0,              \* history: the files before the run
  failure,          \* "" or the stage that failed the pipeline
  raised,           \* None or Some(the exception that left the pipeline)
  exitCode,         \* None or Some(exit code of the process), for a CLI entry
  argv,             \* backup-wrapper: the optional arguments of the command line
  parserOpts,       \* backup-wrapper: the options the parser knows
  args,             \* backup-wrapper: None or the namespace parse_args returned
  waits,            \* history: the bounds of the first MaxAttempts waits of the retrier
  cmdline           \* the command: as given, as parsed, as a shell line, as run

vars == <<script, run, entry, path, retries, compression, compression_cmd, ccmd,
          dirExists, now, fs, tmp, pc, stdout, resolved, rcs, lastOut, lastErr,
          compressorCalls, crc, cargv, checked, fs0, failure, raised,
          exitCode, argv, parserOpts, args, waits, cmdline>>

inputs == <<script, run, entry, path, retries, compression, compression_cmd,
            dirExists, fs0>>

outcome == <<failure, raised, exitCode>>

cli == <<argv, parserOpts, args, cmdline>>

\* a command that is looked at as a whole: its words are not followed
Opaque ==
  [given |-> None, rest |-> None, command |-> None, commands |-> None,
   executed |-> None]

\* arctee and bwnew build and use their parser inside main in one go
NoCli ==
  /\ argv = None
  /\ parserOpts = {}
  /\ args = None
  /\ cmdline = Opaque

Budgets == {None} \cup { Some(n) : n \in 0..MaxRetries }

\* no stage has run yet
Fresh ==
  /\ tmp = None
  /\ pc = entry
  /\ stdout = <<>>
  /\ resolved = None
  /\ rcs = <<>>
  /\ lastOut = <<>>
  /\ lastErr = <<>>
  /\ waits = <<>>
  /\ compressorCalls = 0
  /\ crc = None
  /\ cargv = None
  /\ ccmd = None
  /\ checked = None
  /\ failure = ""
  /\ raised = None
  /\ exitCode = None

Init ==
  /\ script = "arctee"
  /\ run = 1
  /\ entry \in {"main", "do_export"}
  /\ path \in Templates
  /\ retries \in Budgets
  /\ compression \in {None} \cup { Some(f) : f \in Formats }
  /\ compression_cmd \in {None, Some(CustomCmd)}
  \* argparse: --compression and --compression-cmd are mutually exclusive
  /\ entry = "main" => (compression = None \/ compression_cmd = None)
  /\ dirExists \in BOOLEAN
  /\ now = 0
  /\ fs \in {EmptyFS} \cup { Put(EmptyFS, p, OldContent) : p \in PossiblePaths(path) }
  /\ dirExists = FALSE => fs = EmptyFS
  /\ fs0 = fs
  /\ Fresh
  /\ NoCli

(* ----------------------------- exceptions ------------------------------ *)

Exc(type, rc, err) == [type |-> type, returncode |-> rc, stderr |-> err]

\* a main that swallows the exception
ExitCodeSwallowed(r) == 0

\* main(): an uncaught exception ends the interpreter with exit code 1
ExitCode(r) ==
  IF r = None THEN 0
  ELSE IF r[1].type = "SystemExit" THEN r[1].returncode[1]
  ELSE 1

\* an exception leaves the pipeline
Raise(stage, exc) ==
  /\ failure' = stage
  /\ raised' = Some(exc)
  /\ exitCode' = IF entry = "do_export" THEN None ELSE Some(ExitCode(Some(exc)))

Fail(stage, exc) ==
  /\ pc' = "failed"
  /\ Raise(stage, exc)

\* the system clock advances on its own
Tick ==
  /\ now < MaxClock
  /\ pc \notin {"done", "failed"}
  /\ now' = now + 1
  /\ UNCHANGED <<waits, inputs, cli, checked, ccmd, fs, tmp, pc, stdout, resolved, rcs,
                 lastOut, lastErr, compressorCalls, crc, cargv, outcome>>

\* a main without the early check
NoEarlyCheck(s) == FALSE

\* main: replace_placeholders(path), its result dropped: the early check
EarlyCheckRaises(s) == FormatRaises(s)

\* main: the early check of the template, before the command runs
MainValidate ==
  /\ pc = "main"
  /\ IF EarlyCheckRaises(path)
     THEN Fail("template", Exc("KeyError", None, None)) /\ UNCHANGED checked
     ELSE /\ checked' = IF FormatRaises(path)
                        THEN None
                        ELSE Some(replace_placeholders(path, now))
          /\ pc' = "do_export"
          /\ UNCHANGED outcome
  /\ UNCHANGED <<waits, inputs, cli, ccmd, now, fs, tmp, stdout, resolved, rcs,
                 lastOut, lastErr, compressorCalls, crc, cargv>>

\* do_export: select the compression command, build the shell line
DoExportBegin ==
  /\ pc = "do_export"
  /\ ccmd' = SelectCompressionCmd(compression_cmd, compression)
  /\ pc' = "run"
  /\ UNCHANGED <<waits, inputs, cli, checked, now, fs, tmp, stdout, resolved, rcs, lastOut, lastErr,
                 compressorCalls, crc, cargv, outcome>>

(* ------------------------- command runner ------------------------------ *)

\* the test of the exit code inverted
CommandRaisesInverted(rc) == rc = 0

\* do_command: r.check_returncode() raises CalledProcessError
CommandRaises(rc) == rc # 0

\* a retrier that allows one try more than the budget
GiveUpLate(budget, tries) ==
  IF budget = None THEN TRUE ELSE tries = budget[1] + 1

\* a runner that retries once when no budget is given
GiveUpDefaultRetries(budget, tries) ==
  IF budget = None THEN tries = 2 ELSE tries = budget[1]

\* backoff.on_exception(..., max_tries=retries): give up when the number of
\* tries equals max_tries; without a retrier the first exception propagates
GiveUp(budget, tries) ==
  IF budget = None THEN TRUE ELSE tries = budget[1]

\* bytes.decode('utf8') raises UnicodeDecodeError
DecodeRaises(bytes) == \E i \in 1..Len(bytes) : bytes[i] = BadByte

\* do_command: stderr is decoded for the log whatever the exit code, stdout
\* is decoded for the log when the exit code is not 0
LogRaises(rc, out, err) ==
  DecodeRaises(err) \/ (CommandRaises(rc) /\ DecodeRaises(out))

\* bwnew and backup-wrapper: raise RetryMe, an exception with no arguments
RetryMeError == Exc("RetryMe", None, None)

\* arctee: CompletedProcess.check_returncode() raises
\* CalledProcessError(returncode, args, stdout, stderr)
CheckReturncodeError(rc, err) == Exc("CalledProcessError", Some(rc), Some(err))

CommandError(scr, rc, err) ==
  IF scr = "arctee" THEN CheckReturncodeError(rc, err) ELSE RetryMeError

\* a capture with stderr redirected into stdout
CapturedMerged(out, err) == out \o err

\* run(command, shell=True, stdout=PIPE, stderr=PIPE): r.stdout
CapturedStdout(out, err) == out

\* get_stdout: one execution of the command
RunCommand ==
  /\ pc = "run"
  /\ \E rc \in ReturnCodes, out \in Outputs, e \in Stderrs :
       /\ rcs' = IF Len(rcs) < MaxAttempts
                 THEN Append(rcs, rc)
                 ELSE Append(Tail(rcs), rc)
       /\ lastOut' = out
       /\ lastErr' = e
       /\ IF LogRaises(rc, out, e)
          THEN /\ Fail("decode", Exc("UnicodeDecodeError", None, None))
               /\ UNCHANGED stdout
          ELSE IF CommandRaises(rc)
          THEN /\ IF GiveUp(retries, Len(rcs) + 1)
                  THEN Fail("command", CommandError(script, rc, e))
                  ELSE pc' = "sleep" /\ UNCHANGED outcome
               /\ UNCHANGED stdout
          ELSE /\ stdout' = CapturedStdout(out, e)
               /\ pc' = "compress"
               /\ UNCHANGED outcome
  /\ UNCHANGED <<waits, inputs, cli, checked, ccmd, now, fs, tmp, resolved,
                 compressorCalls, crc, cargv>>

\* a retrier that waits the same time before every try
ExpoConstant(n) == 1

\* backoff.expo: the n-th value of the wait generator (n from 0), the bound
\* under which the wait is drawn: 1, 2, 4, ...
Expo(n) == 2 ^ n

\* the retrier's time.sleep between two tries
Sleep ==
  /\ pc = "sleep"
  /\ pc' = "run"
  /\ waits' = IF Len(waits) < MaxAttempts
              THEN Append(waits, Expo(Len(waits)))
              ELSE waits
  /\ UNCHANGED <<inputs, cli, checked, ccmd, now, fs, tmp, stdout, resolved, rcs,
                 lastOut, lastErr, compressorCalls, crc, cargv, outcome>>

(* ------------------------- compressor stage ---------------------------- *)

\* compress: no command, no external program
CompressSkips(c) == c = None

\* a compressor called inside the retrier
RetryCompressorError(budget, tries) ==
  IF budget # None /\ tries < budget[1] THEN "sleep" ELSE "failed"

\* check_output raises on a non-zero exit; compress is called outside the
\* retrier, so the exception ends get_stdout
OnCompressorError(budget, tries) == "failed"

\* get_stdout: compress(data=stdout, compression_cmd=compression_cmd), once,
\* outside the retrier; check_output raises on a non-zero exit
Compress ==
  /\ pc = "compress"
  /\ IF CompressSkips(ccmd)
     THEN /\ pc' = "resolve"
          /\ UNCHANGED <<stdout, compressorCalls, crc, cargv, outcome>>
     ELSE /\ compressorCalls' = compressorCalls + 1
          /\ cargv' = Some(Split(ccmd[1]))
          /\ \E rc \in {0, 1} :
               /\ crc' = Some(rc)
               /\ IF rc = 0
                  THEN /\ stdout' = CompressorOutput(Split(ccmd[1]), stdout)
                       /\ pc' = "resolve"
                       /\ UNCHANGED outcome
                  ELSE /\ pc' = OnCompressorError(retries, Len(rcs))
                       /\ IF pc' = "failed"
                          THEN Raise("compress", Exc("CalledProcessError", Some(rc), None))
                          ELSE UNCHANGED outcome
                       /\ UNCHANGED stdout
  /\ UNCHANGED <<waits, inputs, cli, checked, ccmd, now, fs, tmp, resolved, rcs, lastOut, lastErr>>

(* --------------------------- path stage -------------------------------- *)

\* a do_export that takes the path the early check computed, when there is one
ResolvedPathEarly(early, s, t) ==
  IF early = None THEN replace_placeholders(s, t) ELSE early[1]

\* do_export: replace_placeholders(path) with the clock of this moment; the
\* value of the early check was dropped
ResolvedPath(early, s, t) == replace_placeholders(s, t)

\* do_export: path = replace_placeholders(path), after get_stdout returned
Resolve ==
  /\ pc = "resolve"
  /\ IF FormatRaises(path)
     THEN Fail("template", Exc("KeyError", None, None)) /\ UNCHANGED resolved
     ELSE /\ resolved' = Some(ResolvedPath(checked, path, now))
          /\ pc' = "open"
          /\ UNCHANGED outcome
  /\ UNCHANGED <<waits, inputs, cli, checked, ccmd, now, fs, tmp, stdout, rcs, lastOut,
                 lastErr, compressorCalls, crc, cargv>>

(* --------------------------- atomic writer ----------------------------- *)

\* a writer that opens the destination itself
WriteChunkInPlace(fsys, tmpf, p, data) ==
  [fs |-> Put(fsys, p, SubSeq(data, 1, Len(tmpf[1]) + 1)),
   tmp |-> Some(SubSeq(data, 1, Len(tmpf[1]) + 1))]

\* the files and the temporary file after one more byte of data is written
WriteChunk(fsys, tmpf, p, data) ==
  [fs |-> fsys, tmp |-> Some(SubSeq(data, 1, Len(tmpf[1]) + 1))]

\* a replace step that keeps a file already at the destination
ReplaceKeepsExisting(fsys, tmpf, p) ==
  [fs |-> IF p \in DOMAIN fsys THEN fsys ELSE Put(fsys, p, tmpf[1]), tmp |-> None]

\* the temporary file replaces the destination in one step
ReplaceAtomic(fsys, tmpf, p) ==
  [fs |-> Put(fsys, p, tmpf[1]), tmp |-> None]

\* a failed write that leaves the temporary file behind
RollbackLeavesTemp(fsys, tmpf, p) ==
  [fs |-> fsys, tmp |-> tmpf]

\* a failed write that still moves what was written into place
RollbackCommits(fsys, tmpf, p) ==
  [fs |-> Put(fsys, p, tmpf[1]), tmp |-> None]

\* a failed write removes the temporary file and leaves the destination alone
Rollback(fsys, tmpf, p) ==
  [fs |-> fsys, tmp |-> None]

\* atomic_write(path, mode='wb', overwrite=True): the temporary file is
\* created in the destination's directory
OpenTemp ==
  /\ pc = "open"
  /\ IF dirExists
     THEN /\ tmp' = Some(<<>>)
          /\ pc' = "write"
          /\ UNCHANGED outcome
     ELSE /\ Fail("write", Exc("OSError", None, None))
          /\ UNCHANGED tmp
  /\ UNCHANGED <<waits, inputs, cli, checked, ccmd, now, fs, stdout, resolved, rcs, lastOut,
                 lastErr, compressorCalls, crc, cargv>>

\* fo.write(stdout): the buffer reaches the file byte by byte
WriteTemp ==
  /\ pc = "write"
  /\ Len(tmp[1]) < Len(stdout)
  /\ LET r == WriteChunk(fs, tmp, resolved[1], stdout)
     IN  fs' = r.fs /\ tmp' = r.tmp
  /\ UNCHANGED <<waits, inputs, cli, checked, ccmd, now, pc, stdout, resolved, rcs, lastOut,
                 lastErr, compressorCalls, crc, cargv, outcome>>

\* leaving the with-block: the file is complete, flushed and closed
CloseTemp ==
  /\ pc = "write"
  /\ Len(tmp[1]) = Len(stdout)
  /\ pc' = "commit"
  /\ UNCHANGED <<waits, inputs, cli, checked, ccmd, now, fs, tmp, stdout, resolved, rcs,
                 lastOut, lastErr, compressorCalls, crc, cargv, outcome>>

\* the replace step
Commit ==
  /\ pc = "commit"
  /\ LET r == ReplaceAtomic(fs, tmp, resolved[1])
     IN  fs' = r.fs /\ tmp' = r.tmp
  /\ pc' = "done"
  /\ exitCode' = IF entry = "do_export" THEN None ELSE Some(ExitCode(None))
  /\ UNCHANGED <<waits, inputs, cli, checked, ccmd, now, stdout, resolved, rcs, lastOut,
                 lastErr, compressorCalls, crc, cargv, failure, raised>>

\* an I/O error while writing or replacing (disk full, rename refused)
WriteError ==
  /\ pc \in {"write", "commit"}
  /\ LET r == Rollback(fs, tmp, resolved[1])
     IN  fs' = r.fs /\ tmp' = r.tmp
  /\ Fail("write", Exc("OSError", None, None))
  /\ UNCHANGED <<waits, inputs, cli, checked, ccmd, now, stdout, resolved, rcs, lastOut,
                 lastErr, compressorCalls, crc, cargv>>

Next ==
  \/ Tick
  \/ MainValidate
  \/ DoExportBegin
  \/ RunCommand
  \/ Sleep
  \/ Compress
  \/ Resolve
  \/ OpenTemp
  \/ WriteTemp
  \/ CloseTemp
  \/ Commit
  \/ WriteError

Spec == Init /\ [][Next]_vars

\* every stage of the pipeline is a blocking call of one process: a step
\* that can be taken is taken
FairSpec == Spec /\ WF_vars(Next)

(* ------------------------- the older script ---------------------------- *)

\* bwnew knows the placeholders utcnow and hostname only
WrapperTemplates ==
  { s \in Templates : \A i \in 1..Len(s) : s[i].text # "platform" }

\* bwnew: the same pipeline with --backoff (an int) for the budget and no
\* --compression-cmd; runs without compression are explored
InitWrapper ==
  /\ script = "bwnew"
  /\ run = 1
  /\ entry \in {"main", "do_export"}
  /\ path \in WrapperTemplates
  /\ retries \in { Some(n) : n \in 0..MaxRetries }
  /\ compression = None
  /\ compression_cmd = None
  /\ dirExists \in BOOLEAN
  /\ now = 0
  /\ fs \in {EmptyFS} \cup { Put(EmptyFS, p, OldContent) : p \in PossiblePaths(path) }
  /\ dirExists = FALSE => fs = EmptyFS
  /\ fs0 = fs
  /\ Fresh
  /\ NoCli

SpecWrapper == InitWrapper /\ [][Next]_vars

(* --------------------------- two runs in a row ------------------------- *)

\* test: an empty directory, a run with no compression first
InitTwoRuns ==
  /\ script = "arctee"
  /\ run = 1
  /\ entry \in {"main", "do_export"}
  /\ path \in Templates
  /\ retries \in Budgets
  /\ compression = None
  /\ compression_cmd = None
  /\ dirExists \in BOOLEAN
  /\ now = 0
  /\ fs = EmptyFS
  /\ fs0 = fs
  /\ Fresh
  /\ NoCli

\* test: run(compression='xz', compression_cmd=None) after the first run has
\* returned, with the same template and the same directory
SecondRun ==
  /\ run = 1
  /\ pc = "done"
  /\ run' = 2
  /\ compression' = Some("xz")
  /\ fs0' = fs
  /\ pc' = entry
  /\ tmp' = None
  /\ stdout' = <<>>
  /\ resolved' = None
  /\ rcs' = <<>>
  /\ lastOut' = <<>>
  /\ lastErr' = <<>>
  /\ waits' = <<>>
  /\ compressorCalls' = 0
  /\ crc' = None
  /\ cargv' = None
  /\ ccmd' = None
  /\ checked' = None
  /\ failure' = ""
  /\ raised' = None
  /\ exitCode' = None
  /\ UNCHANGED <<waits, script, entry, path, retries, compression_cmd, dirExists, now,
                 fs, cli>>

NextTwoRuns ==
  \/ Next
  \/ SecondRun

SpecTwoRuns == InitTwoRuns /\ [][NextTwoRuns]_vars

(* --------------------------- backup-wrapper ---------------------------- *)

\* main: --dir, --prefix, --command, --new
MainOpts == {"dir", "prefix", "command", "new"}

\* setup_parser: --backoff, --compression
SetupOpts == {"backoff", "compression"}

\* the options that occur on the command line
Given(a) ==
  {"dir", "prefix", "command"}
    \cup (IF a.new THEN {"new"} ELSE {})
    \cup (IF a.backoff # None THEN {"backoff"} ELSE {})
    \cup (IF a.compression # None THEN {"compression"} ELSE {})

\* the namespace of a parser that knows the options opts: the value given,
\* or the option's default
Namespace(opts, a) ==
  [d \in opts |->
     CASE d = "new" -> a.new
       [] d = "backoff" -> IF a.backoff = None THEN 1 ELSE a.backoff[1]
       [] d = "compression" -> a.compression
       [] OTHER -> "given"]

\* backup-wrapper --dir D --prefix P --command C [--new] [--backoff N]
\* [--compression F]
InitBackupWrapper ==
  /\ script = "backup-wrapper"
  /\ run = 1
  /\ entry = "backup_main"
  /\ path = <<Lit("/backup/testing_"), Field("utcnow"), Lit(".txt")>>
  /\ retries = None
  /\ compression = None
  /\ compression_cmd = None
  /\ dirExists \in BOOLEAN
  /\ now = 0
  /\ fs = EmptyFS
  /\ fs0 = fs
  /\ Fresh
  /\ argv \in [backoff : {None} \cup { Some(n) : n \in 0..MaxRetries },
               compression : {None} \cup { Some(f) : f \in Formats },
               new : BOOLEAN]
  /\ parserOpts = {}
  /\ args = None
  /\ cmdline = Opaque

\* main: the parser and its four add_argument calls
BuildParser ==
  /\ pc = "backup_main"
  /\ parserOpts' = MainOpts
  /\ pc' = "parse_args"
  /\ UNCHANGED <<waits, cmdline, inputs, argv, args, checked, ccmd, now, fs, tmp, stdout, resolved,
                 rcs, lastOut, lastErr, compressorCalls, crc, cargv, outcome>>

\* main: args = parser.parse_args(); an option the parser does not know is
\* an error: usage message, exit code 2
ParseArgs ==
  /\ pc = "parse_args"
  /\ IF Given(argv) \subseteq parserOpts
     THEN /\ args' = Namespace(parserOpts, argv)
          /\ pc' = "lexists"
          /\ UNCHANGED outcome
     ELSE /\ Fail("usage", Exc("SystemExit", Some(2), None))
          /\ UNCHANGED args
  /\ UNCHANGED <<waits, cmdline, inputs, argv, parserOpts, checked, ccmd, now, fs, tmp, stdout,
                 resolved, rcs, lastOut, lastErr, compressorCalls, crc, cargv>>

\* main: if not os.path.lexists(args.dir): raise RuntimeError
CheckDir ==
  /\ pc = "lexists"
  /\ IF dirExists
     THEN pc' = "setup_parser" /\ UNCHANGED outcome
     ELSE Fail("directory", Exc("RuntimeError", None, None))
  /\ UNCHANGED <<waits, inputs, cli, checked, ccmd, now, fs, tmp, stdout, resolved, rcs,
                 lastOut, lastErr, compressorCalls, crc, cargv>>

\* main: setup_parser(parser), called when the arguments are already parsed
SetupParser ==
  /\ pc = "setup_parser"
  /\ parserOpts' = parserOpts \cup SetupOpts
  /\ pc' = "backup"
  /\ UNCHANGED <<waits, cmdline, inputs, argv, args, checked, ccmd, now, fs, tmp, stdout, resolved,
                 rcs, lastOut, lastErr, compressorCalls, crc, cargv, outcome>>

\* main: backup(..., backoff=args.backoff, compression=args.compression);
\* reading an attribute the namespace does not have raises AttributeError
CallBackup ==
  /\ pc = "backup"
  /\ IF SetupOpts \subseteq DOMAIN args
     THEN /\ retries' = Some(args["backoff"])
          /\ compression' = args["compression"]
          /\ pc' = "run"
          /\ UNCHANGED outcome
     ELSE /\ Fail("attribute", Exc("AttributeError", None, None))
          /\ UNCHANGED <<retries, compression>>
  /\ UNCHANGED <<waits, script, run, entry, path, compression_cmd, dirExists, fs0, cli,
                 checked, ccmd, now, fs, tmp, stdout, resolved, rcs, lastOut,
                 lastErr, compressorCalls, crc, cargv>>

NextBackupWrapper ==
  \/ Tick
  \/ BuildParser
  \/ ParseArgs
  \/ CheckDir
  \/ SetupParser
  \/ CallBackup

SpecBackupWrapper == InitBackupWrapper /\ [][NextBackupWrapper]_vars

(* --------------------------- the command line -------------------------- *)

\* most words of a command explored
MaxArgs == 2

\* a word is a sequence of characters: plain, with a space, with a single
\* quote, with a double quote, with a variable reference, empty, options
Words ==
  { <<"a">>, <<"a", " ", "b">>, <<"i", "'", "s">>, <<"\"">>, <<"$", "a">>,
    <<>>, <<"-", "a">>, <<"-", "-">> }

Separator == <<"-", "-">>

Vectors == UNION { [1..n -> Words] : n \in 1..MaxArgs }

\* shlex.quote leaves a word of these characters alone
SafeChars == {"a", "b", "i", "s", "-"}

RECURSIVE EscapeQuotes(_)
\* s.replace("'", "'\"'\"'")
EscapeQuotes(s) ==
  IF s = <<>> THEN <<>>
  ELSE (IF Head(s) = "'" THEN <<"'", "\"", "'", "\"", "'">> ELSE <<Head(s)>>)
         \o EscapeQuotes(Tail(s))

\* a join with no quoting, as in bwnew
quote_nothing(s) == s

\* shlex.quote
quote(s) ==
  IF s = <<>> THEN <<"'", "'">>
  ELSE IF \A i \in 1..Len(s) : s[i] \in SafeChars THEN s
  ELSE <<"'">> \o EscapeQuotes(s) \o <<"'">>

RECURSIVE ShellJoin(_)
\* ' '.join(map(quote, command))
ShellJoin(ws) ==
  IF ws = <<>> THEN <<>>
  ELSE IF Len(ws) = 1 THEN quote(ws[1])
  ELSE quote(ws[1]) \o <<" ">> \o ShellJoin(Tail(ws))

RECURSIVE Lex(_, _, _, _, _, _)
\* sh splitting a line into words: mode "u" outside quotes, "s" in single
\* quotes, "d" in double quotes, "uv" and "dv" inside a variable name;
\* started tells that a word has begun, even an empty one
Lex(line, i, mode, cur, started, words) ==
  IF i > Len(line)
  THEN IF mode \in {"s", "d", "dv"}
       THEN Append(words, <<"<unterminated quote>">>)
       ELSE IF started THEN Append(words, cur) ELSE words
  ELSE LET c == line[i] IN
    CASE mode \in {"uv", "dv"} ->
           IF c \in {"a", "b", "i", "s"}
           THEN Lex(line, i + 1, mode, cur, started, words)
           ELSE Lex(line, i, IF mode = "uv" THEN "u" ELSE "d", cur, started, words)
      [] mode = "s" ->
           IF c = "'"
           THEN Lex(line, i + 1, "u", cur, started, words)
           ELSE Lex(line, i + 1, "s", Append(cur, c), started, words)
      [] mode = "d" ->
           IF c = "\"" THEN Lex(line, i + 1, "u", cur, started, words)
           ELSE IF c = "$" THEN Lex(line, i + 1, "dv", Append(cur, "<value>"), started, words)
           ELSE Lex(line, i + 1, "d", Append(cur, c), started, words)
      [] mode = "u" ->
           IF c = " "
           THEN Lex(line, i + 1, "u", <<>>, FALSE,
                    IF started THEN Append(words, cur) ELSE words)
           ELSE IF c = "'" THEN Lex(line, i + 1, "s", cur, TRUE, words)
           ELSE IF c = "\"" THEN Lex(line, i + 1, "d", cur, TRUE, words)
           ELSE IF c = "$" THEN Lex(line, i + 1, "uv", Append(cur, "<value>"), TRUE, words)
           ELSE Lex(line, i + 1, "u", Append(cur, c), TRUE, words)

\* run(command, shell=True): the argument vector sh executes
ShellWords(line) == Lex(line, 1, "u", <<>>, FALSE, <<>>)

\* arctee PATH [options] -- WORD ...
InitCommand ==
  /\ script = "arctee"
  /\ run = 1
  /\ entry = "parse_known_args"
  /\ path = <<Lit("/exports/"), Field("utcnow"), Lit(".json")>>
  /\ retries = None
  /\ compression = None
  /\ compression_cmd = None
  /\ dirExists = TRUE
  /\ now = 0
  /\ fs = EmptyFS
  /\ fs0 = fs
  /\ Fresh
  /\ argv = None
  /\ parserOpts = {}
  /\ args = None
  /\ cmdline \in { [Opaque EXCEPT !.given = Some(v)] : v \in Vectors }

\* main: args, rest = p.parse_known_args(); the parser drops the separator
\* when it directly follows the path, and leaves it in rest when options
\* stand between the two
ParseKnownArgs ==
  /\ pc = "parse_known_args"
  /\ \E kept \in BOOLEAN :
       cmdline' = [cmdline EXCEPT !.rest =
                     Some((IF kept THEN <<Separator>> ELSE <<>>) \o cmdline.given[1])]
  /\ pc' = "strip"
  /\ UNCHANGED <<waits, inputs, argv, parserOpts, args, checked, ccmd, now, fs, tmp,
                 stdout, resolved, rcs, lastOut, lastErr, compressorCalls, crc,
                 cargv, outcome>>

\* main: if command[0] == '--': del command[0]
StripSeparator ==
  /\ pc = "strip"
  /\ LET rest == cmdline.rest[1] IN
       cmdline' = [cmdline EXCEPT !.command =
                     Some(IF rest[1] = Separator THEN Tail(rest) ELSE rest)]
  /\ pc' = "quote"
  /\ UNCHANGED <<waits, inputs, argv, parserOpts, args, checked, ccmd, now, fs, tmp,
                 stdout, resolved, rcs, lastOut, lastErr, compressorCalls, crc,
                 cargv, outcome>>

\* do_export: assert len(command) > 0; commands = ' '.join(map(quote, command))
BuildShellLine ==
  /\ pc = "quote"
  /\ IF Len(cmdline.command[1]) > 0
     THEN /\ cmdline' = [cmdline EXCEPT !.commands = Some(ShellJoin(cmdline.command[1]))]
          /\ pc' = "shell"
          /\ UNCHANGED outcome
     ELSE /\ Fail("assert", Exc("AssertionError", None, None))
          /\ UNCHANGED cmdline
  /\ UNCHANGED <<waits, inputs, argv, parserOpts, args, checked, ccmd, now, fs, tmp,
                 stdout, resolved, rcs, lastOut, lastErr, compressorCalls, crc,
                 cargv>>

\* do_command: run(command, shell=True, ...): sh parses the line
ShellExecutes ==
  /\ pc = "shell"
  /\ cmdline' = [cmdline EXCEPT !.executed = Some(ShellWords(cmdline.commands[1]))]
  /\ pc' = "executed"
  /\ UNCHANGED <<waits, inputs, argv, parserOpts, args, checked, ccmd, now, fs, tmp,
                 stdout, resolved, rcs, lastOut, lastErr, compressorCalls, crc,
                 cargv, outcome>>

NextCommand ==
  \/ ParseKnownArgs
  \/ StripSeparator
  \/ BuildShellLine
  \/ ShellExecutes

SpecCommand == InitCommand /\ [][NextCommand]_vars

(* ============================ properties =============================== *)

Terminal == pc \in {"done", "failed"}
Executions == Len(rcs)
AllFailed == Executions >= 1 /\ \A i \in 1..Len(rcs) : rcs[i] # 0
Succeeded == \E i \in 1..Len(rcs) : rcs[i] = 0
Selected == compression # None \/ compression_cmd # None
\* what a reader of path p sees: None (no file) or Some(bytes)
Read(fsys, p) == IF p \in DOMAIN fsys THEN Some(fsys[p]) ELSE None

\* C1: with a retry budget N >= 1 and a command that exits non-zero on every
\* execution, the command is executed at most N times, the pipeline cannot
\* end before the N-th execution, after the N-th it has failed at the command
\* stage, the compressor was never invoked and the files are as before.
C1_AlwaysFailingRunsNTimes ==
  \A n \in 1..MaxRetries :
    (retries = Some(n) /\ AllFailed) =>
      /\ Executions <= n
      /\ Executions < n => pc \in {"sleep", "run"}
      /\ Executions = n => pc = "failed" /\ failure = "command"
      /\ compressorCalls = 0
      /\ fs = fs0
      /\ tmp = None

C1_Witness ==
  /\ retries = Some(MaxRetries)
  /\ AllFailed
  /\ Executions = MaxRetries
  /\ pc = "failed"

\* the buffer after the compressor stage, for the stdout of the last execution
FinalBuffer ==
  IF ccmd = None THEN lastOut ELSE CompressorOutput(Split(ccmd[1]), lastOut)

\* C2: with a retry budget N >= 1, once an execution has exited 0 it is the
\* last one (execution k <= N, all earlier ones failed, none follows), the
\* runner has not failed, and the pipeline has moved on to compression and
\* writing with the stdout of that execution.
C2_SuccessStopsRetrying ==
  \A n \in 1..MaxRetries :
    (retries = Some(n) /\ Succeeded) =>
      /\ Executions <= n
      /\ rcs[Executions] = 0
      /\ \A i \in 1..(Executions - 1) : rcs[i] # 0
      /\ pc \in {"compress", "resolve", "open", "write", "commit", "done", "failed"}
      /\ failure \notin {"command", "decode"}
      /\ pc = "compress" => stdout = lastOut
      /\ pc \in {"resolve", "open", "write", "commit", "done"} => stdout = FinalBuffer

C2_Witness ==
  /\ retries = Some(MaxRetries)
  /\ Executions = MaxRetries
  /\ rcs[Executions] = 0
  /\ pc = "done"
  /\ Len(lastOut) = MaxLen

\* C3 as stated: whenever the template has an unsupported placeholder the
\* command has not been executed, whichever way the pipeline was entered.
C3_RejectedBeforeCommandEveryEntry ==
  FormatRaises(path) => Executions = 0

\* C3 amended: through main a template with an unsupported placeholder is
\* rejected with no execution of the command; a direct do_export call
\* rejects it only at the path stage, after the command has exited 0.
C3_RejectedBeforeCommandInMain ==
  FormatRaises(path) =>
    /\ entry = "main" =>
         /\ Executions = 0
         /\ compressorCalls = 0
         /\ pc \in {"main", "failed"}
         /\ pc = "failed" => failure = "template"
    /\ entry = "do_export" =>
         /\ pc # "done"
         /\ failure = "template" => (Succeeded /\ resolved = None)
    /\ fs = fs0

C3_Witness ==
  /\ entry = "main"
  /\ FormatRaises(path)
  /\ pc = "failed"
  /\ failure = "template"

\* the resolved path held a file with other content before the run
OldDiffers ==
  /\ resolved # None
  /\ resolved[1] \in DOMAIN fs0
  /\ fs0[resolved[1]] # stdout

\* a path holds what it held before the run
Untouched(p) == Read(fs, p) = Read(fs0, p)

\* a path holds the complete new contents
CompleteNew(p) ==
  /\ resolved = Some(p)
  /\ Read(fs, p) = Some(stdout)
  /\ stdout = FinalBuffer

\* C4: at every instant every path of the destination directory holds either
\* what it held before the run (its previous file, or no file) or the
\* complete new contents; and the files change in one step only, the replace
\* step, which puts the completely written temporary file in place.
C4_AtomicWrite ==
  /\ [](\A p \in DOMAIN fs \cup DOMAIN fs0 : Untouched(p) \/ CompleteNew(p))
  /\ [][fs' # fs =>
          /\ pc = "commit"
          /\ tmp = Some(stdout)
          /\ fs' = Put(fs, resolved[1], stdout)
          /\ tmp' = None]_vars

C4_Witness ==
  /\ pc = "write"
  /\ OldDiffers
  /\ Len(stdout) >= 2
  /\ Len(tmp[1]) = 1

\* C5 as stated: in a run that succeeds over a file with other content, the
\* old content is not observable once the write has begun; in particular
\* not in the state the replace step starts from.
C5_OldNeverObservableAfterWriteBegins ==
  [][(OldDiffers /\ pc = "commit" /\ pc' = "done") => ~Untouched(resolved[1])]_vars

\* C5 amended: over a file with other content, the destination keeps the
\* complete old content from the beginning of the write until the replace
\* step, holds the complete new content once the replace step has happened,
\* and keeps the old content when the write fails.
C5_OldReplacedInOneStep ==
  OldDiffers =>
    /\ pc \in {"open", "write", "commit", "failed"} => Untouched(resolved[1])
    /\ pc = "done" => (CompleteNew(resolved[1]) /\ ~Untouched(resolved[1]))

C5_Witness ==
  /\ OldDiffers
  /\ pc = "done"
  /\ fs # fs0

\* C6: a failed pipeline, whatever the stage that failed, leaves every file
\* as it was before the run, and the files are as before the run in every
\* state but the one after the replace step, when the buffer is complete.
C6_NoPartialSuccess ==
  /\ failure # "" => pc = "failed"
  /\ pc = "failed" => (fs = fs0 /\ failure \in {"template", "decode", "command", "compress", "write"})
  /\ pc # "done" => fs = fs0
  /\ pc = "done" => stdout = FinalBuffer

C6_Witness ==
  /\ pc = "failed"
  /\ failure = "write"
  /\ OldDiffers
  /\ Len(stdout) > 0

\* C7: after a successful run the resolved path reads back exactly the final
\* buffer: the command's stdout (same length) when no compression is
\* selected, the compressor's output for that stdout when one is.
C7_RoundTrip ==
  pc = "done" =>
    /\ resolved # None
    /\ \E t \in 0..now : resolved[1] = replace_placeholders(path, t)
    /\ Read(fs, resolved[1]) = Some(stdout)
    /\ ~Selected => (stdout = lastOut /\ Len(fs[resolved[1]]) = Len(lastOut))
    /\ Selected => (ccmd # None /\ stdout = CompressorOutput(Split(ccmd[1]), lastOut))

C7_Witness ==
  /\ pc = "done"
  /\ compression = Some("xz")
  /\ compression_cmd = None
  /\ Len(lastOut) = MaxLen

\* C8: with neither a format nor a compression command given, the bytes that
\* leave the compressor stage are the bytes that entered it and no external
\* compressor is ever invoked.
C8_IdentityWithoutCompression ==
  ~Selected =>
    /\ compressorCalls = 0
    /\ crc = None
    /\ pc \in {"resolve", "open", "write", "commit", "done"} => stdout = lastOut

C8_Witness ==
  /\ ~Selected
  /\ pc = "resolve"
  /\ Len(lastOut) = MaxLen

\* C9: the compressor is invoked at most once, and after a non-zero exit of
\* it the pipeline has failed for good, for every retry budget: the command
\* ran for the last time before the compressor, no path was resolved and no
\* file written.
C9_CompressorFailureFatal ==
  /\ compressorCalls <= 1
  /\ (crc # None /\ crc[1] # 0) =>
       /\ pc = "failed"
       /\ failure = "compress"
       /\ compressorCalls = 1
       /\ rcs[Executions] = 0
       /\ \A i \in 1..(Executions - 1) : rcs[i] # 0
       /\ resolved = None
       /\ fs = fs0
       /\ tmp = None

C9_Witness ==
  /\ crc = Some(1)
  /\ retries = Some(MaxRetries)
  /\ Executions = 1
  /\ pc = "failed"

\* C10: no temporary file is left when a run ends; a successful run changes
\* exactly the file at the resolved path; a run whose write fails ends in
\* the write error with the temporary file removed and no file changed.
C10_NoTempFileLeft ==
  /\ Terminal => tmp = None
  /\ tmp # None => pc \in {"write", "commit"}
  /\ pc = "done" => fs = Put(fs0, resolved[1], stdout)
  /\ failure = "write" => (pc = "failed" /\ tmp = None /\ fs = fs0)

C10_Witness ==
  /\ failure = "write"
  /\ dirExists
  /\ resolved # None
  /\ Len(stdout) > 0

\* C11: through main, the process has an exit code exactly when the run has
\* ended; the exit code is 0 exactly when the replace step has put the
\* complete final buffer at the resolved path; and a run that failed, at any
\* stage, ended with an exception and a non-zero exit code.
C11_ExitCodeZeroIffWritten ==
  /\ entry = "do_export" => exitCode = None
  /\ entry = "main" =>
       /\ exitCode # None <=> Terminal
       /\ exitCode = Some(0) <=> pc = "done"
       /\ pc = "done" => (CompleteNew(resolved[1]) /\ raised = None)
       /\ pc = "failed" =>
            /\ exitCode[1] # 0
            /\ raised # None
            /\ failure \in {"template", "decode", "command", "compress", "write"}

C11_Witness ==
  /\ entry = "main"
  /\ pc = "failed"
  /\ failure = "compress"
  /\ exitCode = Some(1)

\* C12: when the command has failed on all N executions of a budget N >= 1,
\* the pipeline has failed with an error that carries the exit code and the
\* stderr of the N-th execution.
C12_ErrorCarriesLastAttempt ==
  \A n \in 1..MaxRetries :
    (retries = Some(n) /\ AllFailed /\ Executions = n) =>
      /\ pc = "failed"
      /\ raised # None
      /\ raised[1].returncode = Some(rcs[n])
      /\ raised[1].stderr = Some(lastErr)

\* C13: after an execution that exited 0, whatever it wrote to stdout and
\* stderr, the runner neither fails nor retries, and it hands the captured
\* stdout of that execution, unchanged, to the compressor stage.
C13_SuccessByExitCodeAlone ==
  (Executions >= 1 /\ rcs[Executions] = 0) =>
    /\ pc \notin {"run", "sleep"}
    /\ failure \notin {"command", "decode"}
    /\ pc = "compress" => stdout = lastOut

\* C14: with no retry budget given the command is executed at most once, the
\* pipeline never returns to the runner after that execution, and a non-zero
\* exit of it fails the pipeline with no file changed; with neither a format
\* nor a compression command given, a successful run leaves exactly the
\* command's stdout at the resolved path and invokes no compressor.
C14_DefaultsOnceAndVerbatim ==
  /\ retries = None =>
       /\ Executions <= 1
       /\ Executions = 1 => pc \notin {"run", "sleep"}
       /\ (Executions = 1 /\ rcs[1] # 0) =>
            /\ pc = "failed"
            /\ failure \in {"command", "decode"}
            /\ fs = fs0
  /\ (~Selected /\ pc = "done") =>
       /\ Read(fs, resolved[1]) = Some(lastOut)
       /\ compressorCalls = 0

C14_Witness ==
  /\ retries = None
  /\ ~Selected
  /\ rcs = <<1>>
  /\ pc = "failed"
  /\ failure = "command"

\* C15: the path is resolved at most once in a run, in the path stage, with
\* the clock of that moment, when the command has exited 0 and the buffer is
\* the compressor stage's result; a successful run has resolved it and has
\* written to that path and no other, whatever path the early check of main
\* had computed.
C15_PathResolvedAtCompletion ==
  /\ [](resolved # None =>
          /\ Succeeded
          /\ stdout = FinalBuffer
          /\ ccmd # None => crc = Some(0)
          /\ \E t \in 0..now : resolved[1] = replace_placeholders(path, t))
  /\ [](pc = "done" => (resolved # None /\ fs = Put(fs0, resolved[1], stdout)))
  /\ [][resolved' # resolved =>
          /\ pc = "resolve"
          /\ resolved = None
          /\ resolved' = Some(replace_placeholders(path, now))
          /\ now' = now]_vars

C15_Witness ==
  /\ entry = "main"
  /\ pc = "done"
  /\ checked # None
  /\ resolved[1] # checked[1]
  /\ resolved[1] \in DOMAIN fs
  /\ checked[1] \notin DOMAIN fs

\* the files of the directory that match the template
Matching == { p \in DOMAIN fs : p \in PossiblePaths(path) }

\* C16: when the second of two successive successful runs with the same
\* template has ended, the directory holds exactly one file matching the
\* template, and that file holds the output of the second run.
C16_TwoRunsOneFile ==
  (run = 2 /\ pc = "done") =>
    /\ Cardinality(Matching) = 1
    /\ \A p \in Matching : fs[p] = stdout /\ stdout = FinalBuffer

\* C17: for every retry budget that is given, 0 included, a run in which no
\* execution of the command ever exits 0 eventually ends failed.
C17_AlwaysFailingEventuallyFails ==
  (retries # None /\ [](~Succeeded)) => <>(pc = "failed")

\* the stages in the order of do_export; run and sleep are the runner stage
Rank(p) ==
  CASE p = "main" -> 0
    [] p = "do_export" -> 1
    [] p \in {"run", "sleep"} -> 2
    [] p = "compress" -> 3
    [] p = "resolve" -> 4
    [] p \in {"open", "write", "commit"} -> 5
    [] p \in {"done", "failed"} -> 6

\* C18: the pipeline is in one stage at a time and never goes back to an
\* earlier one; the command is executed in the runner stage only; the
\* compressor is invoked at most once, in the compressor stage, after an
\* execution that exited 0; the writer opens its temporary file at most once,
\* after the compressor stage has ended well, and nothing is written outside
\* the writer stage.
C18_StageOrdering ==
  /\ [](/\ compressorCalls <= 1
        /\ compressorCalls = 1 => (Succeeded /\ rcs[Executions] = 0)
        /\ Rank(pc) > 2 /\ pc # "failed" => Succeeded
        /\ tmp # None =>
             /\ Rank(pc) = 5
             /\ stdout = FinalBuffer
             /\ ccmd # None => (compressorCalls = 1 /\ crc = Some(0)))
  /\ [][/\ Rank(pc') >= Rank(pc)
        /\ pc \in {"done", "failed"} => pc' = pc
        /\ rcs' # rcs => (pc = "run" /\ compressorCalls = 0 /\ tmp = None)
        /\ compressorCalls' # compressorCalls => (pc = "compress" /\ pc' # "compress")
        /\ (tmp = None /\ tmp' # None) => (pc = "open" /\ pc' = "write")
        /\ (pc' = "open" /\ pc # "open") => pc = "resolve"
        /\ fs' # fs => Rank(pc) = 5]_vars

C18_Witness ==
  /\ retries = Some(MaxRetries)
  /\ Executions = MaxRetries
  /\ compressorCalls = 1
  /\ pc = "commit"
  /\ tmp = Some(stdout)

\* C19: the buffer is empty until an execution exits 0; it then holds exactly
\* the stdout of that execution (not its stderr, nothing of an execution that
\* failed); it changes once more at most, into the compressor's output for
\* that stdout; and the file of a successful run holds exactly that.
C19_OutputFromSuccessfulAttemptOnly ==
  /\ [](/\ ~Succeeded => stdout = <<>>
        /\ pc = "compress" => (rcs[Executions] = 0 /\ stdout = lastOut)
        /\ Rank(pc) \in {4, 5} => stdout = FinalBuffer
        /\ tmp # None => tmp[1] = SubSeq(FinalBuffer, 1, Len(tmp[1]))
        /\ pc = "done" => Read(fs, resolved[1]) = Some(FinalBuffer))
  /\ [][stdout' # stdout =>
          \/ pc = "run" /\ rcs'[Len(rcs')] = 0 /\ stdout' = lastOut'
          \/ /\ pc = "compress"
             /\ ccmd # None
             /\ stdout' = CompressorOutput(Split(ccmd[1]), lastOut)
             /\ lastOut' = lastOut]_vars

C19_Witness ==
  /\ rcs = <<1, 0>>
  /\ lastErr = <<101>>
  /\ Len(lastOut) = MaxLen
  /\ pc = "done"
  /\ fs[resolved[1]] = FinalBuffer
  /\ ccmd # None

\* do_export has made its selection
SelectionDone ==
  /\ pc \notin {"main", "do_export"}
  /\ ~(pc = "failed" /\ Executions = 0)

\* C20: once do_export has selected, an explicit compression command is the
\* selected one whatever the format says; without one, format zstd selects
\* 'zstd --quiet -o /dev/stdout' and any other format f selects
\* 'apack -F f -f /dev/stdout'; with neither, nothing is selected; and the
\* compressor, when it is invoked, is run with the words of the selected
\* command.
C20_CompressionCmdSelection ==
  /\ SelectionDone =>
       /\ compression_cmd # None => ccmd = compression_cmd
       /\ (compression_cmd = None /\ compression = Some("zstd")) =>
            ccmd = Some(Join(<<"zstd", "--quiet", "-o", "/dev/stdout">>))
       /\ (compression_cmd = None /\ compression # None /\ compression # Some("zstd")) =>
            ccmd = Some(Join(<<"apack", "-F", compression[1], "-f", "/dev/stdout">>))
       /\ ~Selected => (ccmd = None /\ cargv = None)
  /\ cargv # None =>
       /\ SelectionDone
       /\ compression_cmd = Some(CustomCmd) =>
            cargv = Some(<<"zstd", "-9", "--quiet", "-o", "/dev/stdout">>)
       /\ (compression_cmd = None /\ compression = Some("zstd")) =>
            cargv = Some(<<"zstd", "--quiet", "-o", "/dev/stdout">>)
       /\ (compression_cmd = None /\ compression # Some("zstd")) =>
            cargv = Some(<<"apack", "-F", compression[1], "-f", "/dev/stdout">>)

C20_Witness ==
  /\ compression = Some("zstd")
  /\ compression_cmd = None
  /\ cargv = Some(<<"zstd", "--quiet", "-o", "/dev/stdout">>)
  /\ pc = "done"

\* C21: backup-wrapper, started with an existing directory, never fails
\* before the command has been executed; and the namespace it works with has
\* the attempt budget and the compression of the command line, or their
\* defaults (1 attempt, no compression) when they are not given.
C21_BackupWrapperReachesBackup ==
  dirExists =>
    /\ ~(pc = "failed" /\ Executions = 0)
    /\ args # None =>
         /\ SetupOpts \subseteq DOMAIN args
         /\ args["backoff"] = (IF argv.backoff = None THEN 1 ELSE argv.backoff[1])
         /\ args["compression"] = argv.compression

\* C22: the retrier waits only between two executions: each wait bound is
\* double the one before; with no budget there is no wait; with a budget
\* N >= 1 there is exactly one wait before each execution but the first, a
\* wait begins only after an execution that failed and was not the N-th, so
\* none follows an execution that exited 0 or the N-th failure.
C22_WaitsOnlyBetweenAttempts ==
  /\ [](/\ \A k \in 1..(Len(waits) - 1) : waits[k + 1] = 2 * waits[k]
        /\ retries = None => waits = <<>>
        /\ \A n \in 1..MaxRetries :
             retries = Some(n) =>
               /\ Len(waits) <= n - 1
               /\ pc = "run" => Len(waits) = Executions
               /\ (pc # "run" /\ Executions >= 1) => Len(waits) = Executions - 1
               /\ pc = "sleep" => (rcs[Executions] # 0 /\ Executions < n))
  /\ [][waits' # waits =>
          /\ pc = "sleep"
          /\ pc' = "run"
          /\ Len(waits') = Len(waits) + 1]_vars

C22_Witness ==
  /\ retries = Some(MaxRetries)
  /\ Executions = MaxRetries
  /\ AllFailed
  /\ pc = "failed"
  /\ Len(waits) = MaxRetries - 1
  /\ Len(waits) >= 2
  /\ waits[2] = 2 * waits[1]

\* C23: whatever non-empty argument vector is given after the separator,
\* the argument vector sh executes is exactly that vector, word for word,
\* and the separator itself is not among the words handed to do_export.
C23_ArgumentPassThrough ==
  /\ cmdline.command # None =>
       cmdline.command[1] = cmdline.given[1]
  /\ cmdline.executed # None =>
       cmdline.executed[1] = cmdline.given[1]

\* the pass-through for a vector whose first word is not the separator
C23_PassThroughOfOrdinaryCommands ==
  (cmdline.given # None /\ cmdline.given[1][1] # Separator) =>
    /\ pc # "failed"
    /\ cmdline.command # None => cmdline.command[1] = cmdline.given[1]
    /\ cmdline.commands # None => ShellWords(cmdline.commands[1]) = cmdline.given[1]
    /\ cmdline.executed # None => cmdline.executed[1] = cmdline.given[1]

====
